---- MODULE Spec2Model ----
(***************************************************************************)
(* A model of src/src/bot.js: the WhatsApp auto-responder.  One process,   *)
(* one event loop.  Every `await` of the source is a suspension point: the *)
(* code up to an await is one atomic step, and the step that resumes the   *)
(* function is a separate action, so handlers interleave exactly where the *)
(* event loop lets them.                                                   *)
(***************************************************************************)
EXTENDS Integers, Sequences, FiniteSets, TLC

VARIABLES
  exited,        \* process.exit was called, or the process crashed
  exitCause,     \* which statement ended the process
  rejectionMode, \* what this Node build does with an unhandled promise rejection
  rtdb,          \* value at AUTH_DB_PATH in the Realtime Database (0: nothing stored)
  dirExists,     \* temp_baileys_session exists on the local disk
  localCreds,    \* content of temp_baileys_session/creds.json (0: no such file)
  attempts,      \* every connectToWhatsApp invocation: where it is suspended
  nAttempts,     \* connectToWhatsApp invocations so far
  sock,          \* the socket each invocation made: none, connecting, open, closed
  sockCreds,     \* state.creds of each socket: the AuthState it holds in memory
  timers,        \* pending setTimeout(() => connectToWhatsApp(), 1000) timers
  credH,         \* every creds.update handler invocation
  nCredH,        \* creds.update events so far
  latestAuth,    \* the AuthState most recently reported by a creds.update event
  rtdbQueue,     \* db.ref().set calls issued and not yet completed, in call order
  loads,         \* log: what each loadCredsFromFirebase read, and latestAuth then
  closeLog,      \* log: every handled connection close
  up,            \* every messages.upsert handler invocation
  nUp,           \* messages.upsert events so far
  firestore,     \* whatsapp_conversations: one document per conversation id
  calls,         \* log: every remote call a messages.upsert handler issued
  harness        \* SpecLog / SpecPersona only: the function under test and its result

connVars == <<attempts, nAttempts, sock, sockCreds, timers, loads, closeLog>>
credVars == <<credH, nCredH, latestAuth, rtdbQueue>>
diskVars == <<rtdb, dirExists, localCreds>>
procVars == <<exited, exitCause, rejectionMode>>
msgVars  == <<up, nUp, firestore, calls>>
vars == <<exited, exitCause, rejectionMode, rtdb, dirExists, localCreds,
          attempts, nAttempts, sock, sockCreds, timers, credH, nCredH,
          latestAuth, rtdbQueue, loads, closeLog, up, nUp, firestore, calls,
          harness>>

(***************************************************************************)
(* Bounds of the model.                                                    *)
(***************************************************************************)
MaxAttempts    == 2   \* connectToWhatsApp invocations explored
MaxCredUpdates == 2   \* creds.update events explored
MaxUpserts     == 2   \* messages.upsert events explored

(***************************************************************************)
(* DisconnectReason of the protocol library, as bot.js uses it.            *)
(***************************************************************************)
connectionClosed == 428
loggedOut        == 401
badSession       == 500

\* lastDisconnect?.error as delivered with a close: 0 stands for an absent error
\* or a plain Error, any other number for a Boom carrying that status code (408
\* is the library's connectionLost / timedOut, which bot.js does not name).
DisconnectErrors == {0, loggedOut, 408, connectionClosed, badSession}

\* new Boom(lastDisconnect?.error)?.output?.statusCode (bot.js:152): Boom keeps
\* the status code of a Boom and gives 500 to everything else.
StatusCode(err) == IF err = 0 THEN 500 ELSE err

\* CloseBranch with connectionLost (408) also taken as recoverable.
CloseBranchRetryLost(reason) ==
  IF reason = badSession \/ reason = loggedOut THEN "exitBadSession"
  ELSE IF reason = connectionClosed \/ reason = 408 THEN "reconnect"
  ELSE "exitOther"

\* CloseBranch with the last branch retrying instead of exiting.
CloseBranchRetryOther(reason) ==
  IF reason = badSession \/ reason = loggedOut THEN "exitBadSession"
  ELSE "reconnect"

\* The branch the close handler takes (bot.js:156-165).
CloseBranch(reason) ==
  IF reason = badSession \/ reason = loggedOut THEN "exitBadSession"
  ELSE IF reason = connectionClosed THEN "reconnect"
  ELSE "exitOther"

(***************************************************************************)
(* The process.                                                            *)
(***************************************************************************)
RejectionModes == {"throw", "warn"}

\* An async handler whose promise rejects has no catch attached: the event
\* emitter drops the promise.  Node >= 15 ends the process on it by default,
\* older builds (or --unhandled-rejections=warn) only print a warning.
AfterRejection(cause) ==
  IF rejectionMode = "throw"
  THEN /\ exited' = TRUE
       /\ exitCause' = cause
  ELSE /\ exited' = exited
       /\ exitCause' = exitCause

NoAttempt == [pc |-> "none", loaded |-> 0, read |-> "none"]
NoCredH   == [pc |-> "none", val |-> 0, sock |-> 0]

Attempts == 1..MaxAttempts
CredHandlers == 1..MaxCredUpdates
Live(s) == sock[s] \in {"connecting", "open"}

(***************************************************************************)
(* connectToWhatsApp (bot.js:119-247).  The invocation made at module load *)
(* (bot.js:250) and every invocation made by a reconnect timer run the     *)
(* same steps.                                                             *)
(***************************************************************************)

\* bot.js:121-132: fetchLatestBaileysVersion resolved; the session directory is
\* removed if present and created anew; loadCredsFromFirebase starts its read.
FetchVersionDone(a) ==
  /\ ~exited
  /\ attempts[a].pc = "fetchVersion"
  /\ dirExists' = TRUE
  /\ localCreds' = 0
  /\ attempts' = [attempts EXCEPT ![a].pc = "loadCreds"]
  /\ UNCHANGED <<procVars, rtdb, nAttempts, sock, sockCreds, timers, loads, closeLog,
                 credVars, msgVars, harness>>

\* loadCredsFromFirebase without the test of bot.js:38: an empty store is handed
\* on as the loaded credentials.
LoadOutcomeNoEmptyTest(readOk, stored) ==
  IF ~readOk THEN "exitLoadError" ELSE "loaded"

\* loadCredsFromFirebase (bot.js:34-48): what the call does with the outcome of
\* db.ref(AUTH_DB_PATH).once('value').
LoadOutcome(readOk, stored) ==
  IF ~readOk THEN "exitLoadError"
  ELSE IF stored = 0 THEN "exitNoCreds"
  ELSE "loaded"

\* bot.js:132-137: the read settled.  On success the loaded value is written to
\* creds.json (writeFileSync throws if the directory is gone) and
\* useMultiFileAuthState starts.
LoadCredsDone(a, readOk) ==
  /\ ~exited
  /\ attempts[a].pc = "loadCreds"
  /\ LET out == LoadOutcome(readOk, rtdb) IN
     IF out # "loaded"
     THEN /\ exited' = TRUE
          /\ exitCause' = out
          /\ attempts' = [attempts EXCEPT ![a].pc = "exited",
                                          ![a].read = IF readOk THEN "ok" ELSE "failed"]
          /\ UNCHANGED <<rejectionMode, localCreds, loads>>
     ELSE /\ loads' = Append(loads, [attempt |-> a, value |-> rtdb, latest |-> latestAuth])
          /\ IF dirExists
             THEN /\ localCreds' = rtdb
                  /\ attempts' = [attempts EXCEPT ![a] = [pc |-> "useAuthState", loaded |-> rtdb, read |-> "ok"]]
                  /\ UNCHANGED procVars
             ELSE /\ attempts' = [attempts EXCEPT ![a] = [pc |-> "rejected", loaded |-> rtdb, read |-> "ok"]]
                  /\ AfterRejection("unhandledRejection")
                  /\ UNCHANGED <<rejectionMode, localCreds>>
  /\ UNCHANGED <<rtdb, dirExists, nAttempts, sock, sockCreds, timers, closeLog,
                 credVars, msgVars, harness>>

\* bot.js:137-246: useMultiFileAuthState read creds.json into state.creds (fresh,
\* unpaired credentials, written 0, if the file is not there); makeWASocket
\* creates the socket and the three listeners are registered.
UseAuthStateDone(a) ==
  /\ ~exited
  /\ attempts[a].pc = "useAuthState"
  /\ sockCreds' = [sockCreds EXCEPT ![a] = localCreds]
  /\ sock' = [sock EXCEPT ![a] = "connecting"]
  /\ attempts' = [attempts EXCEPT ![a].pc = "listening"]
  /\ UNCHANGED <<procVars, diskVars, nAttempts, timers, loads, closeLog,
                 credVars, msgVars, harness>>

\* The connection.update listener (bot.js:148-169), for one update of socket s.
ConnectionUpdate(s, connection, err) ==
  /\ ~exited
  /\ Live(s)
  /\ connection = "open" => sock[s] = "connecting"
  /\ IF connection = "close"
     THEN LET reason == StatusCode(err)
              branch == CloseBranch(reason) IN
          /\ sock' = [sock EXCEPT ![s] = "closed"]
          /\ dirExists' = FALSE
          /\ localCreds' = 0
          /\ closeLog' = Append(closeLog, [sock |-> s, err |-> err, branch |-> branch,
                                           attemptsThen |-> nAttempts, timersThen |-> timers])
          /\ IF branch = "reconnect"
             THEN /\ timers' = timers + 1
                  /\ UNCHANGED procVars
             ELSE /\ exited' = TRUE
                  /\ exitCause' = branch
                  /\ UNCHANGED <<rejectionMode, timers>>
     ELSE /\ sock' = [sock EXCEPT ![s] = IF connection = "open" THEN "open" ELSE @]
          /\ UNCHANGED <<procVars, dirExists, localCreds, closeLog, timers>>
  /\ UNCHANGED <<rtdb, attempts, nAttempts, sockCreds, loads, credVars, msgVars, harness>>

\* The reconnect set with setInterval in place of setTimeout: the timer stays
\* scheduled after it fired.
ReconnectTimerRepeating ==
  /\ ~exited
  /\ timers > 0
  /\ nAttempts < MaxAttempts
  /\ timers' = timers
  /\ nAttempts' = nAttempts + 1
  /\ attempts' = [attempts EXCEPT ![nAttempts + 1] = [pc |-> "fetchVersion", loaded |-> 0, read |-> "none"]]
  /\ UNCHANGED <<procVars, diskVars, sock, sockCreds, loads, closeLog,
                 credVars, msgVars, harness>>

\* The timer set at bot.js:161 fires: connectToWhatsApp() runs to its first await.
ReconnectTimer ==
  /\ ~exited
  /\ timers > 0
  /\ nAttempts < MaxAttempts
  /\ timers' = timers - 1
  /\ nAttempts' = nAttempts + 1
  /\ attempts' = [attempts EXCEPT ![nAttempts + 1] = [pc |-> "fetchVersion", loaded |-> 0, read |-> "none"]]
  /\ UNCHANGED <<procVars, diskVars, sock, sockCreds, loads, closeLog,
                 credVars, msgVars, harness>>

(***************************************************************************)
(* The creds.update listener (bot.js:172-178) and saveCredsToFirebase      *)
(* (bot.js:51-58).                                                         *)
(***************************************************************************)

\* The protocol client changed state.creds of socket s and emitted creds.update;
\* the listener calls saveCreds(), which serialises state.creds as it is now.
CredsUpdate(s) ==
  /\ ~exited
  /\ Live(s)
  /\ nCredH < MaxCredUpdates
  /\ latestAuth' = latestAuth + 1
  /\ sockCreds' = [sockCreds EXCEPT ![s] = latestAuth + 1]
  /\ nCredH' = nCredH + 1
  /\ credH' = [credH EXCEPT ![nCredH + 1] = [pc |-> "saveCreds", val |-> latestAuth + 1, sock |-> s]]
  /\ UNCHANGED <<procVars, diskVars, attempts, nAttempts, sock, timers, loads, closeLog,
                 rtdbQueue, msgVars, harness>>

\* The file write of saveCreds() settles: creds.json now holds the serialised
\* value, or the write failed because the directory is gone (bot.js:154 removed it).
SaveCredsWrite(h) ==
  /\ ~exited
  /\ credH[h].pc = "saveCreds"
  /\ IF dirExists
     THEN /\ localCreds' = credH[h].val
          /\ credH' = [credH EXCEPT ![h].pc = "readFile"]
          /\ UNCHANGED procVars
     ELSE /\ credH' = [credH EXCEPT ![h].pc = "rejected"]
          /\ AfterRejection("unhandledRejection")
          /\ UNCHANGED <<rejectionMode, localCreds>>
  /\ UNCHANGED <<rtdb, dirExists, connVars, nCredH, latestAuth, rtdbQueue, msgVars, harness>>

\* bot.js:176-177 and 53: the listener resumes, reads creds.json back (readFileSync
\* throws if it is gone) and issues db.ref(AUTH_DB_PATH).set with what it read.
\* JSON.parse(JSON.stringify(x)) of a value that JSON.parse produced is x.
SaveCredsResume(h) ==
  /\ ~exited
  /\ credH[h].pc = "readFile"
  /\ IF localCreds # 0
     THEN /\ credH' = [credH EXCEPT ![h] = [@ EXCEPT !.pc = "set", !.val = localCreds]]
          /\ rtdbQueue' = Append(rtdbQueue, h)
          /\ UNCHANGED procVars
     ELSE /\ credH' = [credH EXCEPT ![h].pc = "rejected"]
          /\ AfterRejection("unhandledRejection")
          /\ UNCHANGED <<rejectionMode, rtdbQueue>>
  /\ UNCHANGED <<diskVars, connVars, nCredH, latestAuth, msgVars, harness>>

\* saveCredsToFirebase without the try/catch of bot.js:52-57: a failed set rejects
\* the creds.update listener.
SetDoneUncaught(h, ok) ==
  /\ ~exited
  /\ credH[h].pc = "set"
  /\ rtdbQueue # <<>>
  /\ Head(rtdbQueue) = h
  /\ rtdbQueue' = Tail(rtdbQueue)
  /\ rtdb' = IF ok THEN credH[h].val ELSE rtdb
  /\ credH' = [credH EXCEPT ![h].pc = IF ok THEN "saved" ELSE "rejected"]
  /\ IF ok THEN UNCHANGED <<exited, exitCause>> ELSE AfterRejection("unhandledRejection")
  /\ UNCHANGED <<rejectionMode, dirExists, localCreds, connVars, nCredH, latestAuth,
                 msgVars, harness>>

\* The set settles (sets of one client are applied in call order).  A failure is
\* caught and logged by saveCredsToFirebase (bot.js:55-57).
SetDone(h, ok) ==
  /\ ~exited
  /\ credH[h].pc = "set"
  /\ rtdbQueue # <<>>
  /\ Head(rtdbQueue) = h
  /\ rtdbQueue' = Tail(rtdbQueue)
  /\ rtdb' = IF ok THEN credH[h].val ELSE rtdb
  /\ credH' = [credH EXCEPT ![h].pc = IF ok THEN "saved" ELSE "saveFailed"]
  /\ UNCHANGED <<procVars, dirExists, localCreds, connVars, nCredH, latestAuth, msgVars, harness>>


(***************************************************************************)
(* Identifiers, messages and the conversation store.                       *)
(***************************************************************************)

\* A JID user[:device]@server; device 0 stands for no device part.
Jid(user, device, server) == [user |-> user, device |-> device, server |-> server]
StatusBroadcast == Jid("status", 0, "broadcast")

\* jidNormalizedUser (bot.js:187): the device part is dropped and the legacy
\* server c.us becomes s.whatsapp.net.
jidNormalizedUser(j) ==
  Jid(j.user, 0, IF j.server = "c.us" THEN "s.whatsapp.net" ELSE j.server)

RawJids == {Jid("alice", 0, "s.whatsapp.net"), Jid("alice", 2, "s.whatsapp.net"),
            Jid("bob", 0, "c.us"), StatusBroadcast}
ConvIds == {jidNormalizedUser(j) : j \in RawJids}

\* One element of the `messages` array of a messages.upsert event.  ext, conv,
\* img, vid are message.extendedTextMessage.text, message.conversation and the
\* two captions ("" when absent); gen is how the generation service answers the
\* request made for this message: a reply text, an empty text, or an error.
Msg(jid, fromMe, id, ext, conv, img, vid, ts, gen) ==
  [jid |-> jid, fromMe |-> fromMe, id |-> id, ext |-> ext, conv |-> conv,
   img |-> img, vid |-> vid, ts |-> ts, gen |-> gen]

mAlice  == Msg(Jid("alice", 0, "s.whatsapp.net"), FALSE, "m1", "", "hi", "", "", 1, "reply")
mAlice2 == Msg(Jid("alice", 2, "s.whatsapp.net"), FALSE, "m2", "yo", "hi", "", "", 2, "throw")
mBob    == Msg(Jid("bob", 0, "c.us"), FALSE, "m3", "", "", "pic", "", 1, "empty")
mMine   == Msg(Jid("alice", 0, "s.whatsapp.net"), TRUE, "m4", "", "mine", "", "", 2, "reply")
mStatus == Msg(StatusBroadcast, FALSE, "m5", "", "story", "", "", 1, "reply")

InboundMessages == {mAlice, mAlice2, mBob, mMine, mStatus}

\* The batches delivered: every message alone, a skipped message before and
\* after a processed one, two processed messages of one and of two
\* conversations, the same message twice, and only skipped messages.
Batches ==
  {<<m>> : m \in InboundMessages} \cup
  { <<mMine, mAlice2>>, <<mStatus, mBob>>, <<mAlice2, mMine>>, <<mAlice, mBob>>,
    <<mAlice, mAlice2>>, <<mBob, mBob>>, <<mStatus, mMine>>, <<mStatus, mMine, mAlice>> }

\* What a messages.upsert event carries: every batch as a notification, and one
\* batch of another type (bot.js:182 looks at nothing else of such an event).
UpsertEvents ==
  {[type |-> "notify", messages |-> b] : b \in Batches} \cup
  {[type |-> "append", messages |-> <<mAlice, mBob>>]}

\* Filtered without the fromMe test.
FilteredStatusOnly(m) == m.jid = StatusBroadcast

\* bot.js:185: the messages the loop skips.
Filtered(m) == m.fromMe \/ m.jid = StatusBroadcast

\* bot.js:188: the first non-empty of the four text fields, else ''.
ExtractText(m) ==
  IF m.ext # "" THEN m.ext
  ELSE IF m.conv # "" THEN m.conv
  ELSE IF m.img # "" THEN m.img
  ELSE IF m.vid # "" THEN m.vid
  ELSE ""

\* bot.js:190: parseInt(msg.messageTimestamp * 1000).
Millis(ts) == ts * 1000

\* The object handed to arrayUnion (bot.js:65-71).
Entry(id, content, participant, timestamp, direction) ==
  [id |-> id, content |-> content, participant |-> participant,
   timestamp |-> timestamp, direction |-> direction]

\* The inbound entry stored with the bot as its participant.
IncomingEntryAsBot(m) == Entry(m.id, ExtractText(m), "bot", Millis(m.ts), "incoming")

\* bot.js:195: the entry the listener hands to storeMessageInFirestore for an
\* inbound message.
IncomingEntry(m) == Entry(m.id, ExtractText(m), "user", Millis(m.ts), "incoming")

\* A document of whatsapp_conversations: absent, or present with or without a
\* `messages` array.
NoDoc == [exists |-> FALSE, hasList |-> FALSE, messages |-> <<>>]

\* FieldValue.arrayUnion: the element is added at the end unless an equal
\* element is already in the array.
ArrayUnion(list, e) ==
  IF \E k \in DOMAIN list : list[k] = e THEN list ELSE Append(list, e)

\* SetMerge written as an update: nothing is stored when the document is missing.
SetMergeAsUpdate(doc, e) ==
  IF doc.exists
  THEN [exists |-> TRUE, hasList |-> TRUE,
        messages |-> ArrayUnion(IF doc.hasList THEN doc.messages ELSE <<>>, e)]
  ELSE doc

\* docRef.set({messages: arrayUnion(e)}, {merge: true}) (bot.js:63-72): creates
\* the document or the field when missing.
SetMerge(doc, e) ==
  [exists |-> TRUE, hasList |-> TRUE,
   messages |-> ArrayUnion(IF doc.exists /\ doc.hasList THEN doc.messages ELSE <<>>, e)]

\* StoreWrite with one document for all senders in place of doc(from).
StoreWriteOneDocument(store, conv, e, writeOk) ==
  LET shared == jidNormalizedUser(mAlice.jid) IN
  IF writeOk THEN [store EXCEPT ![shared] = SetMerge(store[shared], e)] ELSE store

\* bot.js:62-75: the store after the write settled; a failed write is caught and
\* logged.
StoreWrite(store, conv, e, writeOk) ==
  IF writeOk THEN [store EXCEPT ![conv] = SetMerge(store[conv], e)] ELSE store

\* bot.js:76: after the try/catch the function body evaluates the identifier f,
\* which no scope declares: a ReferenceError in both outcomes of the write, so
\* the promise of storeMessageInFirestore rejects.
StoreMessageCompletion(writeOk) == "throws"

HistoryLimit == 10

\* slice(0, n) in place of slice(-n): the oldest entries.
SliceFirst(list, n) ==
  IF Len(list) > n THEN SubSeq(list, 1, n) ELSE list

\* Array.prototype.slice(-n).
SliceLast(list, n) ==
  IF Len(list) > n THEN SubSeq(list, Len(list) - n + 1, Len(list)) ELSE list

\* getConversationHistory (bot.js:80-93) on the document as read, or on a failed read.
getConversationHistory(doc, readOk) ==
  IF ~readOk THEN <<>>
  ELSE IF doc.exists
       THEN SliceLast(IF doc.hasList THEN doc.messages ELSE <<>>, HistoryLimit)
       ELSE <<>>

\* firestore.collection(...).doc(id).get(): the snapshot of the document with
\* that identifier; no document is stored under an identifier that is not a
\* normalized one.
DocAt(store, id) == IF id \in DOMAIN store THEN store[id] ELSE NoDoc

Undefined == [kind |-> "undefined"]
Thrown == [kind |-> "throws"]

\* getMessage without its try/catch: the TypeError of `undefined.find` on a
\* document that has no `messages` field leaves the function.
getMessageUnguarded(store, key, readOk) ==
  IF ~readOk THEN Thrown
  ELSE LET doc == DocAt(store, key.remoteJid) IN
       IF doc.exists /\ ~doc.hasList THEN Thrown
       ELSE LET hits == {k \in DOMAIN doc.messages : doc.messages[k].id = key.id} IN
            IF hits = {} THEN Undefined
            ELSE LET msg == doc.messages[CHOOSE k \in hits : \A j \in hits : k <= j] IN
                 [kind |-> "message", conversation |-> msg.content,
                  key |-> [id |-> msg.id, remoteJid |-> key.remoteJid,
                           fromMe |-> msg.direction = "outgoing"]]

\* getMessage (bot.js:97-117): `messages` is doc.data().messages when the
\* document exists and [] otherwise; find returns the first entry whose id is
\* key.id.  A failed read, and the TypeError raised by find when the document
\* has no `messages` field, are caught (bot.js:114-116) and undefined is returned.
getMessage(store, key, readOk) ==
  IF ~readOk THEN Undefined
  ELSE LET doc == DocAt(store, key.remoteJid) IN
       IF doc.exists /\ ~doc.hasList THEN Undefined
       ELSE LET messages == IF doc.exists THEN doc.messages ELSE <<>>
                hits == {k \in DOMAIN messages : messages[k].id = key.id} IN
            IF hits = {} THEN Undefined
            ELSE LET msg == messages[CHOOSE k \in hits : \A j \in hits : k <= j] IN
                 [kind |-> "message", conversation |-> msg.content,
                  key |-> [id |-> msg.id, remoteJid |-> key.remoteJid,
                           fromMe |-> msg.direction = "outgoing"]]

(***************************************************************************)
(* Persona resolution and the generation request.                          *)
(***************************************************************************)
DEFAULT_NYASHA_PROMPT == "You are Nyasha Munyanyiwa ..."
Apology == "Apologies, I encountered an error trying to generate a response from Nyasha. Please try again later."

\* userData.json as loaded at bot.js:4: alice has an entry, bob has none.
userData ==
  [c \in {Jid("alice", 0, "s.whatsapp.net")} |-> [name |-> "Alice", prompt |-> "You are Alice's friend"]]

\* ResolvePrompt reading the entry's name in place of its prompt.
ResolvePromptByName(table, from) ==
  IF from \in DOMAIN table THEN table[from].name ELSE DEFAULT_NYASHA_PROMPT

\* bot.js:197-208.
ResolvePrompt(table, from) ==
  IF from \in DOMAIN table THEN table[from].prompt ELSE DEFAULT_NYASHA_PROMPT

\* bot.js:225: the template `${aiPrompt}\nUser: ${messageContent}`, as its parts.
GenerationRequest(table, from, content) ==
  <<ResolvePrompt(table, from), "\nUser: ", content>>

\* bot.js:187-188, 197-208, 225: the generation request made for message m.
RequestFor(table, m) ==
  GenerationRequest(table, jidNormalizedUser(m.jid), ExtractText(m))

\* bot.js:214-217: the role given to each history entry.
HistoryRole(h) == IF h.participant = "user" THEN "user" ELSE "model"

\* bot.js:223-232: responseText after the generation call settled.
ResponseText(gen) ==
  IF gen = "throw" THEN Apology
  ELSE IF gen = "empty" THEN ""
  ELSE "generated reply"


(***************************************************************************)
(* The messages.upsert listener (bot.js:181-242).                          *)
(***************************************************************************)
Upserts == 1..MaxUpserts
Clock == {5000, 6000}   \* values Date.now() returns at bot.js:238

NoEntry == Entry("", "", "", 0, "")
NoUp == [pc |-> "none", type |-> "", batch |-> <<>>, i |-> 0, sock |-> 0,
         history |-> <<>>, responseText |-> "", inWrite |-> "none", out |-> NoEntry]

Call(h, i, kind, prompt, text) ==
  [h |-> h, i |-> i, kind |-> kind, prompt |-> prompt, text |-> text]

\* sock.generateMessageTag(): a tag no other call returns.
MessageTag(h, i) == "tag" \o ToString(h) \o "." \o ToString(i)

\* bot.js:183-185: the position of the first message at or after i that the loop
\* does not skip (past the end if there is none).
RECURSIVE FirstPassing(_, _)
FirstPassing(batch, i) ==
  IF i > Len(batch) THEN i
  ELSE IF Filtered(batch[i]) THEN FirstPassing(batch, i + 1)
  ELSE i

\* bot.js:183-195: the loop runs from position i to its next await: the call of
\* storeMessageInFirestore for the first message it does not skip, or the end.
LoopFrom(rec, i) ==
  LET j == FirstPassing(rec.batch, i) IN
  IF j > Len(rec.batch)
  THEN [rec EXCEPT !.pc = "done", !.i = j]
  ELSE [rec EXCEPT !.pc = "storeIn", !.i = j]

LoopCalls(h, rec, i) ==
  LET j == FirstPassing(rec.batch, i) IN
  IF j > Len(rec.batch) THEN {}
  ELSE {Call(h, j, "store", "", ExtractText(rec.batch[j]))}

\* sendMessage inside a try/catch of its own: a failed send is not thrown.
SendCompletionSwallowed(ok) == "returns"

\* bot.js:235: `await sock.sendMessage(...)` stands outside every try block of
\* the listener, so a failed send is thrown out of it.
SendCompletion(ok) == IF ok THEN "returns" ELSE "throws"

\* A messages.upsert event of socket s: the listener runs to its first await.
MessagesUpsert(s, type, batch) ==
  /\ ~exited
  /\ sock[s] = "open"
  /\ nUp < MaxUpserts
  /\ nUp' = nUp + 1
  /\ LET h == nUp + 1
         rec == [NoUp EXCEPT !.type = type, !.batch = batch, !.sock = s] IN
     IF type = "notify"
     THEN /\ up' = [up EXCEPT ![h] = LoopFrom(rec, 1)]
          /\ calls' = calls \cup LoopCalls(h, rec, 1)
     ELSE /\ up' = [up EXCEPT ![h] = [rec EXCEPT !.pc = "done"]]
          /\ calls' = calls
  /\ UNCHANGED <<procVars, diskVars, connVars, credVars, firestore, harness>>

AwaitPcs == {"storeIn", "history", "generate", "send", "storeOut"}

\* The listener resumes after the remote call it awaits settled (ok: the call
\* succeeded) and runs to its next await, its return, or the throw that rejects it.
UpsertResume(h, ok, now) ==
  /\ ~exited
  /\ up[h].pc \in AwaitPcs
  /\ LET rec == up[h]
         m == rec.batch[rec.i]
         from == jidNormalizedUser(m.jid)
         content == ExtractText(m) IN
     CASE rec.pc = "storeIn" ->
          \* bot.js:195, 61-77, then 197-210
          /\ firestore' = StoreWrite(firestore, from, IncomingEntry(m), ok)
          /\ IF StoreMessageCompletion(ok) = "throws"
             THEN /\ up' = [up EXCEPT ![h] = [rec EXCEPT !.pc = "rejected",
                                                  !.inWrite = IF ok THEN "ok" ELSE "failed"]]
                  /\ AfterRejection("unhandledRejection")
                  /\ UNCHANGED <<rejectionMode, calls>>
             ELSE /\ up' = [up EXCEPT ![h] = [rec EXCEPT !.pc = "history",
                                                  !.inWrite = IF ok THEN "ok" ELSE "failed"]]
                  /\ calls' = calls \cup {Call(h, rec.i, "history", "", "")}
                  /\ UNCHANGED procVars
       [] rec.pc = "history" ->
          \* bot.js:210-225
          /\ up' = [up EXCEPT ![h] = [rec EXCEPT !.pc = "generate",
                                          !.history = getConversationHistory(firestore[from], ok)]]
          /\ calls' = calls \cup {Call(h, rec.i, "generate",
                                       RequestFor(userData, m)[1], content)}
          /\ UNCHANGED <<procVars, firestore>>
       [] rec.pc = "generate" ->
          \* bot.js:225-235
          LET text == ResponseText(m.gen) IN
          IF text # ""
          THEN /\ up' = [up EXCEPT ![h] = [rec EXCEPT !.pc = "send", !.responseText = text]]
               /\ calls' = calls \cup {Call(h, rec.i, "send", "", text)}
               /\ UNCHANGED <<procVars, firestore>>
          ELSE /\ up' = [up EXCEPT ![h] = LoopFrom([rec EXCEPT !.responseText = text], rec.i + 1)]
               /\ calls' = calls \cup LoopCalls(h, rec, rec.i + 1)
               /\ UNCHANGED <<procVars, firestore>>
       [] rec.pc = "send" ->
          \* bot.js:235-238: a failed send throws out of the listener; a send that
          \* returned is logged (kind "sent") and the outgoing entry is handed to
          \* storeMessageInFirestore
          IF SendCompletion(ok) = "returns"
          THEN /\ up' = [up EXCEPT ![h] = [rec EXCEPT !.pc = "storeOut",
                            !.out = Entry(MessageTag(h, rec.i), rec.responseText, "bot", now, "outgoing")]]
               /\ calls' = calls \cup {Call(h, rec.i, "store", "", rec.responseText)}
                                 \cup (IF ok THEN {Call(h, rec.i, "sent", "", rec.responseText)}
                                             ELSE {})
               /\ UNCHANGED <<procVars, firestore>>
          ELSE /\ up' = [up EXCEPT ![h] = [rec EXCEPT !.pc = "rejected"]]
               /\ AfterRejection("unhandledRejection")
               /\ UNCHANGED <<rejectionMode, calls, firestore>>
       [] rec.pc = "storeOut" ->
          \* bot.js:238, 61-77, then the next round of the loop
          /\ firestore' = StoreWrite(firestore, from, rec.out, ok)
          /\ IF StoreMessageCompletion(ok) = "throws"
             THEN /\ up' = [up EXCEPT ![h] = [rec EXCEPT !.pc = "rejected"]]
                  /\ AfterRejection("unhandledRejection")
                  /\ UNCHANGED <<rejectionMode, calls>>
             ELSE /\ up' = [up EXCEPT ![h] = LoopFrom(rec, rec.i + 1)]
                  /\ calls' = calls \cup LoopCalls(h, rec, rec.i + 1)
                  /\ UNCHANGED procVars
  /\ UNCHANGED <<diskVars, connVars, credVars, nUp, harness>>

(***************************************************************************)
(* The program.                                                            *)
(***************************************************************************)
NoHarness == [op |-> "none"]

BaseInit ==
  /\ exited = FALSE
  /\ exitCause = "none"
  /\ localCreds = 0
  /\ attempts = [a \in Attempts |-> IF a = 1 THEN [pc |-> "fetchVersion", loaded |-> 0, read |-> "none"] ELSE NoAttempt]
  /\ nAttempts = 1
  /\ sock = [a \in Attempts |-> "none"]
  /\ sockCreds = [a \in Attempts |-> 0]
  /\ timers = 0
  /\ credH = [h \in CredHandlers |-> NoCredH]
  /\ nCredH = 0
  /\ rtdbQueue = <<>>
  /\ loads = <<>>
  /\ closeLog = <<>>
  /\ up = [h \in Upserts |-> NoUp]
  /\ nUp = 0
  /\ calls = {}

\* The process right after bot.js:250: connectToWhatsApp() has run to its first
\* await.  The credential store holds the paired AuthState (1) or nothing, the
\* session directory may be left over from an earlier run, no conversation is
\* stored yet.
Init ==
  /\ BaseInit
  /\ rejectionMode \in RejectionModes
  /\ rtdb \in {0, 1}
  /\ latestAuth = rtdb
  /\ dirExists \in BOOLEAN
  /\ firestore = [c \in ConvIds |-> NoDoc]
  /\ harness = NoHarness

StartNext ==
  \/ \E a \in Attempts : FetchVersionDone(a)
  \/ \E a \in Attempts, readOk \in BOOLEAN : LoadCredsDone(a, readOk)
  \/ \E a \in Attempts : UseAuthStateDone(a)
  \/ \E s \in Attempts, connection \in {"connecting", "open"} : ConnectionUpdate(s, connection, 0)
  \/ \E s \in Attempts, err \in DisconnectErrors : ConnectionUpdate(s, "close", err)

CredNext ==
  \/ \E s \in Attempts : CredsUpdate(s)
  \/ \E h \in CredHandlers : SaveCredsWrite(h)
  \/ \E h \in CredHandlers : SaveCredsResume(h)
  \/ \E h \in CredHandlers, ok \in BOOLEAN : SetDone(h, ok)

MsgNext ==
  \/ \E s \in Attempts, ev \in UpsertEvents : MessagesUpsert(s, ev.type, ev.messages)
  \/ \E h \in Upserts, ok \in BOOLEAN, now \in Clock : UpsertResume(h, ok, now)

Next == StartNext \/ ReconnectTimer \/ CredNext \/ MsgNext

Spec == Init /\ [][Next]_vars

\* The program observed over its connection and credential events only.
SpecConn == Init /\ [][StartNext \/ ReconnectTimer \/ CredNext]_vars

\* The program observed over the message events of its first connection.
SpecMsg == Init /\ [][StartNext \/ MsgNext]_vars

\* One messages.upsert event, the first of the process, and the steps of its
\* listener.
FirstUpsertNext ==
  \/ \E s \in Attempts, batch \in {<<mAlice>>, <<mBob>>} :
       nUp = 0 /\ MessagesUpsert(s, "notify", batch)
  \/ \E ok \in BOOLEAN, now \in Clock : UpsertResume(1, ok, now)

\* The program observed over the credential events of its first connection while
\* one message listener is in flight.
SpecCredMsg == Init /\ [][StartNext \/ CredNext \/ FirstUpsertNext]_vars


(***************************************************************************)
(* The conversation log functions on their own: storeMessageInFirestore    *)
(* and getConversationHistory applied to a store that grows entry by       *)
(* entry.                                                                  *)
(***************************************************************************)
MaxStored == 11   \* distinct entries stored over all conversations

LogConvs == {jidNormalizedUser(mAlice.jid), jidNormalizedUser(mBob.jid)}
EmptyDoc == [exists |-> TRUE, hasList |-> FALSE, messages |-> <<>>]

RECURSIVE SumLen(_, _)
SumLen(store, convs) ==
  IF convs = {} THEN 0
  ELSE LET c == CHOOSE x \in convs : TRUE IN
       Len(store[c].messages) + SumLen(store, convs \ {c})

\* The k-th entry handed to the log: incoming and outgoing entries alternate.
FreshEntry(k) ==
  IF k % 2 = 1
  THEN Entry("in" \o ToString(k), "text" \o ToString(k), "user", Millis(k), "incoming")
  ELSE Entry("out" \o ToString(k), "text" \o ToString(k), "bot", Millis(k), "outgoing")

\* The entries a call may carry: the next new one, or one equal to the first or
\* to the last entry the conversation already holds (a message delivered again).
LogInputs(conv) ==
  LET list == firestore[conv].messages
      n == SumLen(firestore, LogConvs) IN
  (IF n < MaxStored THEN {FreshEntry(n + 1)} ELSE {}) \cup
  (IF list # <<>> THEN {list[1], list[Len(list)]} ELSE {})

LogInit ==
  /\ BaseInit
  /\ rejectionMode = "warn"
  /\ rtdb = 1
  /\ latestAuth = 1
  /\ dirExists = FALSE
  /\ firestore \in {[c \in ConvIds |-> IF c \in withDoc THEN EmptyDoc ELSE NoDoc] :
                    withDoc \in {{}, {jidNormalizedUser(mBob.jid)}}}
  /\ harness = NoHarness

\* One call of storeMessageInFirestore(conv, e.id, e.content, ...), to its end.
CallStore(conv, e, writeOk) ==
  /\ firestore' = StoreWrite(firestore, conv, e, writeOk)
  /\ harness' = [op |-> "store", conv |-> conv, entry |-> e, writeOk |-> writeOk,
                 readOk |-> FALSE,
                 before |-> firestore[conv],
                 completion |-> StoreMessageCompletion(writeOk),
                 result |-> <<>>]
  /\ UNCHANGED <<procVars, diskVars, connVars, credVars, up, nUp, calls>>

\* One call of getConversationHistory(conv).  When it directly follows a store
\* into the same conversation the record keeps that store (op "roundTrip").
CallHistory(conv, readOk) ==
  /\ harness' =
       IF harness.op = "store" /\ harness.conv = conv
       THEN [harness EXCEPT !.op = "roundTrip", !.readOk = readOk,
                            !.result = getConversationHistory(firestore[conv], readOk)]
       ELSE [op |-> "history", conv |-> conv, entry |-> NoEntry, writeOk |-> FALSE,
             readOk |-> readOk,
             before |-> firestore[conv],
             completion |-> "",
             result |-> getConversationHistory(firestore[conv], readOk)]
  /\ UNCHANGED <<procVars, diskVars, connVars, credVars, msgVars>>

LogNext ==
  \/ \E conv \in LogConvs, writeOk \in BOOLEAN :
       \E e \in LogInputs(conv) : CallStore(conv, e, writeOk)
  \/ \E conv \in LogConvs, readOk \in BOOLEAN : CallHistory(conv, readOk)

SpecLog == LogInit /\ [][LogNext]_vars

(***************************************************************************)
(* The reply steps on their own: bot.js:197-239 for the first message a    *)
(* batch's loop takes up, entered as if the call of bot.js:195 had         *)
(* returned.  (In the program that call always throws, see                 *)
(* StoreMessageCompletion, and these steps are not reached.)               *)
(***************************************************************************)
\* The listener of a batch at bot.js:210, its inbound write settled with
\* outcome inWrite and its history read issued.
AtHistory(batch, inWrite) ==
  [LoopFrom([NoUp EXCEPT !.type = "notify", !.batch = batch, !.sock = 1], 1)
     EXCEPT !.pc = "history", !.inWrite = inWrite]

ReplyInit ==
  /\ exited = FALSE
  /\ exitCause = "none"
  /\ rejectionMode \in RejectionModes
  /\ rtdb = 1
  /\ latestAuth = 1
  /\ dirExists = TRUE
  /\ localCreds = 1
  /\ attempts = [a \in Attempts |->
                   IF a = 1 THEN [pc |-> "listening", loaded |-> 1, read |-> "ok"]
                   ELSE NoAttempt]
  /\ nAttempts = 1
  /\ sock = [a \in Attempts |-> IF a = 1 THEN "open" ELSE "none"]
  /\ sockCreds = [a \in Attempts |-> IF a = 1 THEN 1 ELSE 0]
  /\ timers = 0
  /\ credH = [h \in CredHandlers |-> NoCredH]
  /\ nCredH = 0
  /\ rtdbQueue = <<>>
  /\ loads = <<[attempt |-> 1, value |-> 1, latest |-> 1]>>
  /\ closeLog = <<>>
  /\ harness = NoHarness
  /\ nUp = 1
  /\ \E batch \in Batches, inWrite \in {"ok", "failed"} :
       LET j == FirstPassing(batch, 1)
           rec == AtHistory(batch, inWrite) IN
       /\ j <= Len(batch)
       /\ up = [h \in Upserts |-> IF h = 1 THEN rec ELSE NoUp]
       /\ firestore = StoreWrite([c \in ConvIds |-> NoDoc], jidNormalizedUser(batch[j].jid),
                                 IncomingEntry(batch[j]), inWrite = "ok")
       /\ calls = LoopCalls(1, rec, 1) \cup {Call(1, j, "history", "", "")}

ReplyNext == \E ok \in BOOLEAN, now \in Clock : UpsertResume(1, ok, now)

SpecReply == ReplyInit /\ [][ReplyNext]_vars

(***************************************************************************)
(* getMessage on its own: bot.js:97-117 applied to a message key, over     *)
(* logs that calls of storeMessageInFirestore wrote.                       *)
(***************************************************************************)
MaxKept == 3

\* The entries stored before a lookup: new ones, and one that carries the id of
\* the conversation's first entry with another content.
KeptInputs(conv) ==
  LET list == firestore[conv].messages
      n == SumLen(firestore, LogConvs) IN
  IF n >= MaxKept THEN {}
  ELSE {FreshEntry(n + 1)} \cup
       (IF list # <<>>
        THEN {Entry(list[1].id, "again", "bot", Millis(n + 1), "outgoing")}
        ELSE {})

\* The keys looked up: every raw and every normalized identifier, with the id of
\* a stored entry or with an id no entry carries.
MessageKeys ==
  [remoteJid : RawJids \cup ConvIds,
   id : {"none"} \cup UNION {{firestore[c].messages[k].id : k \in DOMAIN firestore[c].messages} :
                              c \in ConvIds}]

\* One call of getMessage(key), to its end.
CallGetMessage(key, readOk) ==
  /\ harness' = [op |-> "getMessage", key |-> key, readOk |-> readOk,
                 result |-> getMessage(firestore, key, readOk)]
  /\ UNCHANGED <<procVars, diskVars, connVars, credVars, msgVars>>

GetMessageNext ==
  \/ \E conv \in LogConvs : \E e \in KeptInputs(conv) : CallStore(conv, e, TRUE)
  \/ \E key \in MessageKeys, readOk \in BOOLEAN : CallGetMessage(key, readOk)

SpecGetMessage == LogInit /\ [][GetMessageNext]_vars

(***************************************************************************)
(* Persona resolution on its own: bot.js:187-208 and 225 applied to a      *)
(* persona table, a sender and a message.                                  *)
(***************************************************************************)
Prompts == {"You are Alice's friend", "You are a shop assistant"}

\* userData.json: any table keyed by normalized sender identifiers.
PersonaTables ==
  UNION {[keys -> [name : {"N"}, prompt : Prompts]] : keys \in SUBSET ConvIds}

PersonaInit ==
  /\ LogInit
  /\ firestore = [c \in ConvIds |-> NoDoc]

CallResolve(table, m) ==
  /\ harness' = [op |-> "resolve", table |-> table, msg |-> m,
                 request |-> RequestFor(table, m)]
  /\ UNCHANGED <<procVars, diskVars, connVars, credVars, msgVars>>

PersonaNext == \E table \in PersonaTables, m \in InboundMessages : CallResolve(table, m)

SpecPersona == PersonaInit /\ [][PersonaNext]_vars


(***************************************************************************)
(* Properties.                                                             *)
(***************************************************************************)
Min(a, b) == IF a < b THEN a ELSE b
Finished(h) == up[h].type = "notify" /\ up[h].pc \in {"done", "rejected"}
Passes(m) == ~m.fromMe /\ m.jid # StatusBroadcast
CallsOf(h, i, kind) == {c \in calls : c.h = h /\ c.i = i /\ c.kind = kind}

\* C1: once the listener has finished with a batch, every message of the batch
\* that passes the self/broadcast filter and whose generation does not return
\* empty text has had sendMessage called with the generated reply or the apology.
C1_ReplyOrApologySent ==
  \A h \in Upserts :
    Finished(h) =>
      \A i \in DOMAIN up[h].batch :
        LET m == up[h].batch[i] IN
        (Passes(m) /\ m.gen # "empty") =>
          \E c \in CallsOf(h, i, "send") : c.text = ResponseText(m.gen)

\* C2: for a message with fromMe true or remoteJid status@broadcast the listener
\* issues no remote call at all (no store write, no history read, no generation
\* request, no sendMessage), whatever else the batch holds.
C2_SkippedMessageNoCalls ==
  \A c \in calls :
    LET m == up[c.h].batch[c.i] IN
    ~(m.fromMe \/ m.jid = StatusBroadcast)

\* C2 witness: a batch whose first message is skipped and whose second message
\* was taken up by the listener.
C2_Witness ==
  \E h \in Upserts :
    /\ up[h].type = "notify"
    /\ Len(up[h].batch) >= 2
    /\ up[h].batch[1].fromMe
    /\ CallsOf(h, 2, "store") # {}
    /\ up[h].pc = "rejected"

\* C3: once the listener has finished with a batch, every filter-passing message
\* whose generation fails has had sendMessage called with the apology and an
\* outgoing store call carrying the apology issued after it.
C3_ApologyOnGenerationError ==
  \A h \in Upserts :
    Finished(h) =>
      \A i \in DOMAIN up[h].batch :
        LET m == up[h].batch[i] IN
        (Passes(m) /\ m.gen = "throw") =>
          /\ \E c \in CallsOf(h, i, "send") : c.text = Apology
          /\ \E c \in CallsOf(h, i, "store") : c.text = Apology

\* C4: a failed write of the inbound entry does not end the listener: the
\* history read of that message is issued and the listener is not rejected.
C4_StoreFailureContinues ==
  \A h \in Upserts :
    up[h].inWrite = "failed" =>
      /\ up[h].pc # "rejected"
      /\ CallsOf(h, up[h].i, "history") # {} \/ up[h].i > Len(up[h].batch)


RecoverableCloses == {k \in DOMAIN closeLog : closeLog[k].err = connectionClosed}

\* C5 as stated: an invocation of connectToWhatsApp made by a reconnect never
\* ends the process, its credential load included.
C5_ReconnectNeverExits ==
  \A a \in Attempts : a >= 2 => attempts[a].pc # "exited"

\* C5 amended: every close with reason connectionClosed leaves the process
\* running and schedules exactly one reconnect, and each scheduled reconnect
\* starts at most one invocation of connectToWhatsApp (the invocations so far
\* plus the timers still pending are one more than the recoverable closes); an
\* invocation makes its socket only after a successful credential load, and a
\* reconnect invocation that ends the process does so in that load.
C5_ReconnectOncePerClose ==
  /\ nAttempts + timers = 1 + Cardinality(RecoverableCloses)
  /\ \A k \in RecoverableCloses :
       /\ closeLog[k].branch = "reconnect"
       /\ (exited /\ k = Len(closeLog)) => exitCause \notin {"exitBadSession", "exitOther"}
  /\ \A a \in Attempts :
       /\ sock[a] # "none" => attempts[a].loaded # 0
       /\ (a >= 2 /\ attempts[a].pc = "exited") => exitCause \in {"exitLoadError", "exitNoCreds"}

\* C5 witness: after a close with reason connectionClosed the second invocation
\* has loaded the credentials and made its socket, and the process runs.
C5_Witness ==
  /\ ~exited
  /\ RecoverableCloses # {}
  /\ nAttempts = 2
  /\ timers = 0
  /\ sock[2] = "connecting"

\* C6: a close whose reason is anything but connectionClosed (an absent reason
\* included) ends the process in the close handler: it is the last close handled,
\* and no connectToWhatsApp invocation and no reconnect timer is added by it or
\* after it.
C6_UnrecoverableCloseTerminates ==
  \A k \in DOMAIN closeLog :
    closeLog[k].err # connectionClosed =>
      /\ exited
      /\ exitCause \in {"exitBadSession", "exitOther"}
      /\ k = Len(closeLog)
      /\ nAttempts = closeLog[k].attemptsThen
      /\ timers = closeLog[k].timersThen

\* C6 witness: the process has ended on a close of the second socket that
\* carried no reason.
C6_Witness ==
  /\ exited
  /\ Len(closeLog) = 2
  /\ closeLog[2].err = 0
  /\ closeLog[2].sock = 2

\* C7: whatever a reconnect invocation of connectToWhatsApp loads from the
\* credential store is the AuthState most recently reported by creds.update.
C7_ReconnectLoadsLatest ==
  \A k \in DOMAIN loads :
    loads[k].attempt >= 2 => loads[k].value = loads[k].latest


\* C8: the prompt of the generation request made for a message is the prompt
\* the persona table configures for the normalized sender when the table has an
\* entry for it, and the default persona prompt when it has none; the request is
\* defined for every table and sender, and ends with the message text.
C8_PromptIsConfiguredOrDefault ==
  harness.op = "resolve" =>
    LET id == jidNormalizedUser(harness.msg.jid)
        table == harness.table IN
    /\ Len(harness.request) = 3
    /\ id \in DOMAIN table => harness.request[1] = table[id].prompt
    /\ id \notin DOMAIN table => harness.request[1] = DEFAULT_NYASHA_PROMPT
    /\ harness.request[3] = ExtractText(harness.msg)

\* C8 witness: a request for a message sent from a linked device of a sender
\* whose table entry has a prompt of its own.
C8_Witness ==
  /\ harness.op = "resolve"
  /\ harness.msg.jid.device # 0
  /\ jidNormalizedUser(harness.msg.jid) \in DOMAIN harness.table
  /\ harness.request[1] \in Prompts

StoredList(conv) == firestore[conv].messages
IsTailOf(result, list) ==
  /\ Len(result) = Min(HistoryLimit, Len(list))
  /\ \A k \in 1..Len(result) : result[k] = list[Len(list) - Len(result) + k]

\* C9 as stated: every call of getConversationHistory returns the last
\* min(10, n) entries of the n stored ones, in stored order.
C9_HistoryIsTail ==
  harness.op \in {"history", "roundTrip"} =>
    IsTailOf(harness.result, StoredList(harness.conv))

\* C9 amended: a call of getConversationHistory whose store read succeeds
\* returns the last min(10, n) entries of the n stored ones, in stored order
\* (none for an unknown conversation); a call whose read fails returns none.
C9_HistoryIsTailWhenRead ==
  harness.op \in {"history", "roundTrip"} =>
    IF harness.readOk
    THEN IsTailOf(harness.result, StoredList(harness.conv))
    ELSE harness.result = <<>>

\* C9 witness: a successful read of a conversation holding more than 10 entries.
C9_Witness ==
  /\ harness.op = "history"
  /\ harness.readOk
  /\ Len(StoredList(harness.conv)) > HistoryLimit
  /\ Len(harness.result) = HistoryLimit

HeldBefore == \E k \in DOMAIN harness.before.messages : harness.before.messages[k] = harness.entry

\* C10 as stated: after a successful append of E, the history read next from
\* that conversation ends with E, whatever the conversation held before.
C10_RoundTripLast ==
  (harness.op = "roundTrip" /\ harness.writeOk /\ harness.readOk) =>
    /\ harness.result # <<>>
    /\ harness.result[Len(harness.result)] = harness.entry

\* C10 amended: after a successful append of E to a conversation that held no
\* entry equal to E, the history read next from it (the read succeeding) ends
\* with E; when an equal entry was already held, the append leaves the stored
\* list as it was and the history is the tail of that list.
C10_RoundTripLastUnlessHeld ==
  (harness.op = "roundTrip" /\ harness.writeOk /\ harness.readOk) =>
    IF ~HeldBefore
    THEN /\ harness.result # <<>>
         /\ harness.result[Len(harness.result)] = harness.entry
    ELSE /\ StoredList(harness.conv) = harness.before.messages
         /\ IsTailOf(harness.result, harness.before.messages)

\* C10 witness: a new entry appended to a conversation that had no document,
\* then read back.
C10_Witness ==
  /\ harness.op = "roundTrip"
  /\ harness.writeOk
  /\ harness.readOk
  /\ ~harness.before.exists
  /\ harness.result = <<harness.entry>>


OutgoingEntries(conv) ==
  {k \in DOMAIN firestore[conv].messages : firestore[conv].messages[k].direction = "outgoing"}
IncomingEntries(conv) ==
  {k \in DOMAIN firestore[conv].messages : firestore[conv].messages[k].direction = "incoming"}

\* C11: when the first message ever delivered is one filter-passing message of a
\* sender with no stored conversation and its generation succeeds, then, once the
\* listener has finished (the inbound write having succeeded), generation was
\* requested with that text on an empty history, the log holds exactly one
\* incoming entry, sendMessage was called exactly once, with the generated text,
\* and exactly one outgoing entry carrying that text is stored.
C11_FirstMessageExchange ==
  (nUp = 1 /\ Finished(1) /\ up[1].batch = <<mAlice>> /\ up[1].inWrite = "ok") =>
    LET conv == jidNormalizedUser(mAlice.jid) IN
    /\ \E c \in CallsOf(1, 1, "generate") : c.text = ExtractText(mAlice)
    /\ up[1].history = <<>>
    /\ Cardinality(IncomingEntries(conv)) = 1
    /\ Cardinality(CallsOf(1, 1, "send")) = 1
    /\ \A c \in CallsOf(1, 1, "send") : c.text = ResponseText("reply")
    /\ Cardinality(OutgoingEntries(conv)) = 1
    /\ \A k \in OutgoingEntries(conv) :
         firestore[conv].messages[k].content = ResponseText("reply")


\* C12: an attempt of connectToWhatsApp whose credential read failed, or found no
\* AuthState in the store, has ended the process and has no socket; and every
\* attempt that has a socket read the store successfully and loaded an AuthState.
C12_NoSocketWithoutCreds ==
  \A a \in Attempts :
    /\ (attempts[a].read = "failed" \/ (attempts[a].read = "ok" /\ attempts[a].loaded = 0))
         => (exited /\ exitCause \in {"exitLoadError", "exitNoCreds"}
             /\ attempts[a].pc = "exited" /\ sock[a] = "none")
    /\ sock[a] # "none" => (attempts[a].read = "ok" /\ attempts[a].loaded # 0)

\* A reconnect attempt found the store unreadable and ended the process with no
\* socket, after the first attempt had connected.
C12_Witness ==
  /\ exited
  /\ attempts[2].read = "failed"
  /\ sock[2] = "none"
  /\ sock[1] = "closed"


C14_GetMessageLookup ==
  harness.op = "getMessage" =>
    LET key == harness.key
        known == key.remoteJid \in DOMAIN firestore
        list == IF known THEN firestore[key.remoteJid].messages ELSE <<>>
        hits == {k \in DOMAIN list : list[k].id = key.id} IN
    /\ harness.result.kind \in {"message", "undefined"}
    /\ IF harness.readOk /\ hits # {}
       THEN /\ harness.result.kind = "message"
            /\ \E k \in hits :
                 /\ \A j \in hits : k <= j
                 /\ harness.result.conversation = list[k].content
                 /\ harness.result.key.id = key.id
                 /\ harness.result.key.remoteJid = key.remoteJid
                 /\ harness.result.key.fromMe = (list[k].direction = "outgoing")
       ELSE harness.result.kind = "undefined"

\* A lookup by a normalized identifier returned the first of two stored entries
\* that carry the key's id.
C14_Witness ==
  /\ harness.op = "getMessage"
  /\ harness.result.kind = "message"
  /\ harness.key.remoteJid \in DOMAIN firestore
  /\ LET list == firestore[harness.key.remoteJid].messages IN
     /\ Cardinality({k \in DOMAIN list : list[k].id = harness.key.id}) = 2
     /\ harness.result.conversation = list[1].content


\* C15: once the listener has finished with a batch, whatever failed on the way,
\* its loop has run past the end of the batch and every filter-passing message
\* of the batch was taken up exactly once (one call storing its inbound entry).
C15_BatchProcessedToTheEnd ==
  \A h \in Upserts :
    Finished(h) =>
      /\ up[h].i > Len(up[h].batch)
      /\ \A i \in DOMAIN up[h].batch :
           Passes(up[h].batch[i]) =>
             Cardinality({c \in CallsOf(h, i, "store") :
                            c.text = ExtractText(up[h].batch[i])}) = 1


\* C16: every stored entry of the bot is an outgoing one with a non-empty text
\* for which a sendMessage call with that text, to the sender under whose
\* identifier the entry is stored, had returned; sendMessage is never called
\* with an empty text nor for a message whose reply is empty; and an outgoing
\* entry is handed to the store only by a listener whose send of that text
\* returned.
C16_OutboundOnlyAfterSend ==
  /\ \A conv \in ConvIds : \A k \in DOMAIN firestore[conv].messages :
       LET e == firestore[conv].messages[k] IN
       (e.participant = "bot" \/ e.direction = "outgoing") =>
         /\ e.content # ""
         /\ \E c \in calls :
              /\ c.kind = "sent"
              /\ c.text = e.content
              /\ e.id = MessageTag(c.h, c.i)
              /\ jidNormalizedUser(up[c.h].batch[c.i].jid) = conv
              /\ \E d \in CallsOf(c.h, c.i, "send") : d.text = c.text
  /\ \A c \in calls :
       c.kind \in {"send", "sent"} => (c.text # "" /\ up[c.h].batch[c.i].gen # "empty")
  /\ \A h \in Upserts :
       up[h].out # NoEntry =>
         \E c \in CallsOf(h, up[h].i, "sent") : c.text = up[h].out.content

\* The send of a listener returned and its outgoing entry is stored.
C16_Witness ==
  \E conv \in ConvIds :
    /\ \E k \in DOMAIN firestore[conv].messages :
         firestore[conv].messages[k].direction = "outgoing"
    /\ up[1].pc = "rejected"
    /\ CallsOf(1, up[1].i, "sent") # {}


\* The conversation of the message listener h is at.
ConvOf(h) == jidNormalizedUser(up[h].batch[up[h].i].jid)
AtMessage(h) == up[h].pc \in AwaitPcs \cup {"rejected"}

\* C17: whatever the interleaving of the listeners, (1) every entry of a
\* conversation's log was written for a message of that conversation, by a
\* listener that took that message up, and when only one listener has a message
\* of the conversation the log holds that message's inbound entry before its
\* reply's entry; (2) a history a listener holds is a run of consecutive entries
\* of its own conversation's log; (3) a step changes the stored record of a conversation
\* only when it is a store step of a listener at a message of that
\* conversation, and it then only appends to it.
C17_ConversationsIsolated ==
  /\ [](\A conv \in ConvIds :
          LET list == firestore[conv].messages
              own == {h \in Upserts : AtMessage(h) /\ ConvOf(h) = conv} IN
          /\ \A k \in DOMAIN list :
               \E h \in own :
                 LET m == up[h].batch[up[h].i] IN
                 \/ /\ list[k].id = m.id
                    /\ list[k].content = ExtractText(m)
                    /\ list[k].direction = "incoming"
                 \/ list[k] = up[h].out
          /\ Cardinality(own) = 1 =>
               \A k1, k2 \in DOMAIN list :
                 k1 < k2 => (list[k1].direction = "incoming" /\ list[k2].direction = "outgoing"))
  /\ [](\A h \in Upserts :
          AtMessage(h) =>
            LET list == firestore[ConvOf(h)].messages IN
            \E off \in 0..Len(list) :
              \A k \in DOMAIN up[h].history :
                off + k <= Len(list) /\ up[h].history[k] = list[off + k])
  /\ [][\A conv \in ConvIds :
          firestore'[conv] # firestore[conv] =>
            /\ \E h \in Upserts :
                 /\ up[h].pc \in {"storeIn", "storeOut"}
                 /\ up'[h].pc # up[h].pc
                 /\ ConvOf(h) = conv
            /\ Len(firestore'[conv].messages) >= Len(firestore[conv].messages)
            /\ \A k \in DOMAIN firestore[conv].messages :
                 firestore'[conv].messages[k] = firestore[conv].messages[k]
     ]_vars

\* Two listeners of different conversations were in flight together: the second
\* one's write has settled and is stored while the first one's write is still
\* under way.
C17_Witness ==
  /\ up[1].pc = "storeIn"
  /\ up[2].pc = "rejected"
  /\ up[2].inWrite = "ok"
  /\ ConvOf(1) # ConvOf(2)
  /\ Len(firestore[ConvOf(2)].messages) = 1
  /\ firestore[ConvOf(1)].messages = <<>>


\* C18: in every state the sockets that are connecting or open, the reconnect
\* timers that are scheduled and the invocations of connectToWhatsApp that have
\* not yet created their socket number at most one together.
C18_AtMostOneConnection ==
  Cardinality({s \in Attempts : sock[s] \in {"connecting", "open"}})
    + timers
    + Cardinality({a \in Attempts : attempts[a].pc \in {"fetchVersion", "loadCreds", "useAuthState"}})
    <= 1

\* The socket of the reconnect is connecting, the first socket is closed and no
\* timer is left.
C18_Witness ==
  /\ sock[1] = "closed"
  /\ sock[2] = "connecting"
  /\ timers = 0
  /\ ~exited


\* C19: every stored entry has participant user and direction incoming, or
\* participant bot and direction outgoing; so the role the history mapping
\* derives from the participant is the one the direction gives.
C19_ParticipantMatchesDirection ==
  \A conv \in ConvIds : \A k \in DOMAIN firestore[conv].messages :
    LET e == firestore[conv].messages[k] IN
    /\ \/ e.participant = "user" /\ e.direction = "incoming"
       \/ e.participant = "bot" /\ e.direction = "outgoing"
    /\ HistoryRole(e) = (IF e.direction = "incoming" THEN "user" ELSE "model")

\* The entries of two inbound messages of one sender are stored.
C19_Witness ==
  \E conv \in ConvIds :
    /\ Len(firestore[conv].messages) = 2
    /\ \A k \in DOMAIN firestore[conv].messages :
         firestore[conv].messages[k].participant = "user"


====
